---- MODULE Spec2Model ----
(***************************************************************************)
(* Model of pyinfra's reconciliation helpers:                              *)
(*   pyinfra/operations/util/service.py    handle_service_control          *)
(*   pyinfra/operations/util/packaging.py  ensure_packages, ensure_rpm,    *)
(*                                         ensure_yum_repo                 *)
(*   pyinfra/operations/pkg.py             packages                        *)
(*                                                                         *)
(* Python values are encoded as strings: None, True and False are the      *)
(* strings "None", "True" and "False", so that a tri-state argument        *)
(* (running: bool = None) is one value domain.  A Python str is a sequence *)
(* of one-character strings where the code takes it apart (rsplit), and a  *)
(* TLA+ string where the code only passes it on.  A dict is a function     *)
(* whose DOMAIN is its key set.                                            *)
(***************************************************************************)
EXTENDS Integers, Sequences, FiniteSets, TLC

VARIABLES
    statuses,   \* handle_service_control: the `statuses` dict, mutated in place
    svc,        \* the last handle_service_control call: arguments and emissions
    resolved,   \* history: names already called with `running` specified
    snapshot,   \* ensure_packages: the `current_packages_to_versions` dict
    pkg,        \* the last ensure_packages call: arguments and emissions
    facts,      \* the host's fact cache: RpmPackage facts by name, File facts by path
    rpm,        \* the last ensure_rpm call: arguments and emissions
    repo        \* the last ensure_yum_repo call: arguments and emissions

vars == <<statuses, svc, resolved, snapshot, pkg, facts, rpm, repo>>

None == "None"
True == "True"
False == "False"

\* Python truthiness of an Optional[bool] argument (`if restarted`, `if is_running`).
Truthy(v) == v = True

\* Python truthiness of an Optional[str] argument (`if command`).
TruthyStr(s) == s # None /\ s # ""

\* dict.get(key, None)
Get(d, k) == IF k \in DOMAIN d THEN d[k] ELSE None

\* Put that rebinds the dict to one holding only the new entry
Put_Only(d, k, v) == [x \in {k} |-> v]

\* d[key] = value
Put(d, k, v) == [x \in (DOMAIN d) \cup {k} |-> IF x = k THEN v ELSE d[x]]

\* d.pop(key, None)
Pop(d, k) == [x \in (DOMAIN d) \ {k} |-> d[x]]

EmptyDict == [x \in {} |-> None]

Last(s) == s[Len(s)]
Front(s) == SubSeq(s, 1, Len(s) - 1)

(***************************************************************************)
(* Service control                                                         *)
(***************************************************************************)

Services == {"nginx", "sshd"}
Tri == {None, True, False}
Commands == {None, "", "enable", "restart"}
\* status_argument only names the probe verb; the default is enough to show it
StatusArguments == {"status"}

\* formatter.format(name, verb): the formatter's text around the two fields
Format(name, verb) == [kind |-> "cmd", service |-> name, verb |-> verb]

\* the literal shell no-op "true" that fills a clause that was not requested
TrueCmd == [kind |-> "true"]

\* UnknownCommand with `not running` in place of `running is False`
UnknownCommand_StopUnlessTrue(name, running, restarted, reloaded, status_argument) ==
    [kind |-> "if",
     status_command |-> Format(name, status_argument),
     stop_command |-> IF running # True THEN Format(name, "stop") ELSE TrueCmd,
     restart_command |-> IF Truthy(restarted) THEN Format(name, "restart") ELSE TrueCmd,
     reload_command |-> IF Truthy(reloaded) THEN Format(name, "reload") ELSE TrueCmd,
     start_command |-> IF running = True THEN Format(name, "start") ELSE TrueCmd]

\* service.py:20-30, the combined probe-and-branch command
UnknownCommand(name, running, restarted, reloaded, status_argument) ==
    [kind |-> "if",
     status_command |-> Format(name, status_argument),
     stop_command |-> IF running = False THEN Format(name, "stop") ELSE TrueCmd,
     restart_command |-> IF Truthy(restarted) THEN Format(name, "restart") ELSE TrueCmd,
     reload_command |-> IF Truthy(reloaded) THEN Format(name, "reload") ELSE TrueCmd,
     start_command |-> IF running = True THEN Format(name, "start") ELSE TrueCmd]

\* UnknownBranch without the assignment of line 31
UnknownBranch_NotRecorded(name, sts, running, restarted, reloaded, status_argument) ==
    [cmds |-> <<UnknownCommand(name, running, restarted, reloaded, status_argument)>>,
     noops |-> <<>>,
     statuses |-> sts]

\* service.py:19-31, status unknown: one command, then statuses[name] = running
UnknownBranch(name, sts, running, restarted, reloaded, status_argument) ==
    [cmds |-> <<UnknownCommand(name, running, restarted, reloaded, status_argument)>>,
     noops |-> <<>>,
     statuses |-> Put(sts, name, running)]

\* StopStep without the assignment of line 38
StopStep_NotRecorded(name, sts, is_running, running) ==
    IF running = False
    THEN IF Truthy(is_running)
         THEN [cmds |-> <<Format(name, "stop")>>, noops |-> <<>>, statuses |-> sts]
         ELSE [cmds |-> <<>>, noops |-> <<<<"stopped", name>>>>, statuses |-> sts]
    ELSE [cmds |-> <<>>, noops |-> <<>>, statuses |-> sts]

\* service.py:35-40, `if running is False`
StopStep(name, sts, is_running, running) ==
    IF running = False
    THEN IF Truthy(is_running)
         THEN [cmds |-> <<Format(name, "stop")>>, noops |-> <<>>,
               statuses |-> Put(sts, name, False)]
         ELSE [cmds |-> <<>>, noops |-> <<<<"stopped", name>>>>, statuses |-> sts]
    ELSE [cmds |-> <<>>, noops |-> <<>>, statuses |-> sts]

\* StartStep without the assignment of line 46
StartStep_NotRecorded(name, sts, is_running, running) ==
    IF running = True
    THEN IF ~Truthy(is_running)
         THEN [cmds |-> <<Format(name, "start")>>, noops |-> <<>>, statuses |-> sts]
         ELSE [cmds |-> <<>>, noops |-> <<<<"running", name>>>>, statuses |-> sts]
    ELSE [cmds |-> <<>>, noops |-> <<>>, statuses |-> sts]

\* service.py:43-48, `if running is True`
StartStep(name, sts, is_running, running) ==
    IF running = True
    THEN IF ~Truthy(is_running)
         THEN [cmds |-> <<Format(name, "start")>>, noops |-> <<>>,
               statuses |-> Put(sts, name, True)]
         ELSE [cmds |-> <<>>, noops |-> <<<<"running", name>>>>, statuses |-> sts]
    ELSE [cmds |-> <<>>, noops |-> <<>>, statuses |-> sts]

\* RestartStep without the `and is_running` of line 51
RestartStep_Always(name, is_running, restarted) ==
    IF Truthy(restarted) THEN <<Format(name, "restart")>> ELSE <<>>

\* service.py:51-52, `if restarted and is_running`
RestartStep(name, is_running, restarted) ==
    IF Truthy(restarted) /\ Truthy(is_running)
    THEN <<Format(name, "restart")>> ELSE <<>>

\* service.py:55-56, `if reloaded and is_running`
ReloadStep(name, is_running, reloaded) ==
    IF Truthy(reloaded) /\ Truthy(is_running)
    THEN <<Format(name, "reload")>> ELSE <<>>

\* service.py:33-56, status known; is_running is the value read at line 15
KnownBranch(name, sts, is_running, running, restarted, reloaded) ==
    LET stop == StopStep(name, sts, is_running, running)
        start == StartStep(name, stop.statuses, is_running, running)
    IN [cmds |-> stop.cmds \o start.cmds
                 \o RestartStep(name, is_running, restarted)
                 \o ReloadStep(name, is_running, reloaded),
        noops |-> stop.noops \o start.noops,
        statuses |-> start.statuses]

\* service.py:60-61, `if command`
ExtraCommand(name, command) ==
    IF TruthyStr(command) THEN <<Format(name, command)>> ELSE <<>>

\* handle_service_control with lines 60-61 moved before line 15
handle_service_control_CommandFirst(name, sts, running, restarted, reloaded, command, status_argument) ==
    LET is_running == Get(sts, name)
        branch == IF is_running = None
                  THEN UnknownBranch(name, sts, running, restarted, reloaded,
                                     status_argument)
                  ELSE KnownBranch(name, sts, is_running, running, restarted, reloaded)
    IN [cmds |-> ExtraCommand(name, command) \o branch.cmds,
        noops |-> branch.noops,
        statuses |-> branch.statuses]

\* service.py:4-61, the whole generator run to exhaustion
handle_service_control(name, sts, running, restarted, reloaded, command, status_argument) ==
    LET is_running == Get(sts, name)
        branch == IF is_running = None
                  THEN UnknownBranch(name, sts, running, restarted, reloaded,
                                     status_argument)
                  ELSE KnownBranch(name, sts, is_running, running, restarted, reloaded)
    IN [cmds |-> branch.cmds \o ExtraCommand(name, command),
        noops |-> branch.noops,
        statuses |-> branch.statuses]

NoServiceCall ==
    [called |-> FALSE, name |-> None, running |-> None, restarted |-> None,
     reloaded |-> None, command |-> None, status_argument |-> "status",
     is_running |-> None, was_resolved |-> FALSE, repeat |-> FALSE,
     cmds |-> <<>>, noops |-> <<>>]

\* the status facts of a run: a bool for some of the services
InitialStatuses == UNION {[D -> {True, False}] : D \in SUBSET Services}

NoPackageCall == [called |-> FALSE]

NoFacts == [rpm |-> EmptyDict, files |-> {}]

NoRpmCall == [called |-> FALSE]

NoRepoCall == [called |-> FALSE]

Init ==
    /\ statuses \in InitialStatuses
    /\ svc = NoServiceCall
    /\ resolved = {}
    /\ snapshot = EmptyDict
    /\ pkg = NoPackageCall
    /\ facts = NoFacts
    /\ rpm = NoRpmCall
    /\ repo = NoRepoCall

\* one call of handle_service_control on the run's status map
ServiceControl ==
    \E name \in Services, running \in Tri, restarted \in Tri, reloaded \in Tri,
       command \in Commands, status_argument \in StatusArguments :
        LET r == handle_service_control(name, statuses, running, restarted, reloaded,
                                        command, status_argument)
        IN /\ statuses' = r.statuses
           /\ svc' = [called |-> TRUE, name |-> name, running |-> running,
                      restarted |-> restarted, reloaded |-> reloaded,
                      command |-> command, status_argument |-> status_argument,
                      is_running |-> Get(statuses, name),
                      was_resolved |-> name \in resolved,
                      repeat |-> /\ svc.called /\ svc.name = name
                                 /\ svc.running = running
                                 /\ svc.restarted = restarted
                                 /\ svc.reloaded = reloaded
                                 /\ svc.command = command
                                 /\ svc.status_argument = status_argument,
                      cmds |-> r.cmds, noops |-> r.noops]
           /\ resolved' = IF running # None THEN resolved \cup {name} ELSE resolved
           /\ UNCHANGED <<snapshot, pkg, facts, rpm, repo>>

Next == ServiceControl

Spec == Init /\ [][Next]_vars

(***************************************************************************)
(* Properties of handle_service_control                                    *)
(***************************************************************************)

Range(s) == {s[i] : i \in 1..Len(s)}

\* the actions emitted for the running/restarted/reloaded intents, i.e. all
\* but the trailing action of the `command` intent
IntentCmds(c) == IF TruthyStr(c.command) THEN Front(c.cmds) ELSE c.cmds

Emitted(c, verb) == Format(c.name, verb) \in Range(IntentCmds(c))

Clause(name, verb, requested) == IF requested THEN Format(name, verb) ELSE TrueCmd

\* C1: when the status of the service is unknown (absent or None), the call
\* emits exactly one combined if/else command before any extra `command`
\* action; its stop clause is the stop command iff running is False, its
\* restart clause iff restarted, its reload clause iff reloaded, its start
\* clause iff running is True, every other clause is the placeholder `true`;
\* afterwards statuses[name] equals the running intent.
C1_UnknownStatusCombined ==
    (svc.called /\ svc.is_running = None) =>
        /\ Len(IntentCmds(svc)) = 1
        /\ Len(svc.cmds) >= 1
        /\ svc.cmds[1] =
             [kind |-> "if",
              status_command |-> Format(svc.name, svc.status_argument),
              stop_command |-> Clause(svc.name, "stop", svc.running = False),
              restart_command |-> Clause(svc.name, "restart", svc.restarted = True),
              reload_command |-> Clause(svc.name, "reload", svc.reloaded = True),
              start_command |-> Clause(svc.name, "start", svc.running = True)]
        /\ Get(statuses, svc.name) = svc.running

C1_Witness ==
    /\ svc.called /\ svc.is_running = None
    /\ svc.running = True /\ svc.restarted = True /\ svc.reloaded = None
    /\ Len(svc.cmds) = 1
    /\ svc.cmds[1].start_command = Format(svc.name, "start")
    /\ svc.cmds[1].restart_command = Format(svc.name, "restart")
    /\ svc.cmds[1].stop_command = TrueCmd
    /\ statuses[svc.name] = True

\* C4: when the recorded status is Stopped at the start of the call, no
\* restart and no reload is emitted for the intents, and a call with only
\* restarted and/or reloaded (no running, no command) emits nothing and
\* reports no no-op; restart (reload) is emitted exactly when restarted
\* (reloaded) is set and the status at the start of the call is Running.
C4_RestartReloadOnlyWhenRunning ==
    svc.called =>
        /\ (svc.is_running = False) =>
              /\ ~Emitted(svc, "restart")
              /\ ~Emitted(svc, "reload")
              /\ (svc.running = None /\ ~TruthyStr(svc.command)) =>
                    (svc.cmds = <<>> /\ svc.noops = <<>>)
        /\ Emitted(svc, "restart") <=> (svc.restarted = True /\ svc.is_running = True)
        /\ Emitted(svc, "reload") <=> (svc.reloaded = True /\ svc.is_running = True)

C4_Witness ==
    /\ svc.called /\ svc.is_running = False
    /\ svc.restarted = True /\ svc.reloaded = True
    /\ svc.running = None /\ svc.command = None
    /\ svc.cmds = <<>> /\ svc.noops = <<>>

\* C5: with a known status, stop is emitted and the status set to False iff
\* running is False and the service is recorded Running; start is emitted
\* and the status set to True iff running is True and the service is
\* recorded Stopped; when the recorded status equals the running intent
\* neither is emitted, the status is unchanged and exactly one no-op
\* ("stopped" or "running") is reported.  After any call with running
\* specified, statuses[name] equals the running intent.
C5_StartStopKnownStatus ==
    svc.called =>
        /\ (svc.is_running # None) =>
              /\ Emitted(svc, "stop") <=> (svc.running = False /\ svc.is_running = True)
              /\ Emitted(svc, "start") <=> (svc.running = True /\ svc.is_running = False)
              /\ Emitted(svc, "stop") => statuses[svc.name] = False
              /\ Emitted(svc, "start") => statuses[svc.name] = True
              /\ (svc.running = svc.is_running) =>
                    /\ statuses[svc.name] = svc.is_running
                    /\ svc.noops = << <<IF svc.running = True THEN "running"
                                                             ELSE "stopped",
                                        svc.name>> >>
              /\ (svc.running # svc.is_running) => svc.noops = <<>>
        /\ (svc.running # None) => Get(statuses, svc.name) = svc.running

C5_Witness ==
    /\ svc.called /\ svc.is_running = True /\ svc.running = False
    /\ svc.cmds = <<Format(svc.name, "stop")>>
    /\ svc.noops = <<>>
    /\ statuses[svc.name] = False

HasProbe(cmds) == \E i \in 1..Len(cmds) : cmds[i].kind = "if"

\* C6: in any sequence of calls on one status map, a call for a name that an
\* earlier call has set the running intent for emits no probe-and-branch
\* command; a call on an unknown status with running unspecified leaves the
\* status unknown, and the next call for that name probes again.
C6_NoReprobeOnceResolved ==
    [][ /\ (svc'.name \in resolved) => ~HasProbe(svc'.cmds)
        /\ (svc'.is_running = None /\ svc'.running = None) =>
              Get(statuses', svc'.name) = None
        /\ (svc.called /\ svc.is_running = None /\ svc.running = None
               /\ svc'.name = svc.name) => HasProbe(svc'.cmds)
      ]_vars

C6_Witness ==
    /\ svc.called /\ svc.was_resolved
    /\ svc.running = None /\ svc.restarted = True /\ svc.command = None
    /\ svc.cmds = <<Format(svc.name, "restart")>>

\* the number of actions the running/restarted/reloaded intents emit
IntentCount(c) ==
    IF c.is_running = None THEN 1
    ELSE (IF c.running # None /\ c.running # c.is_running THEN 1 ELSE 0)
         + (IF c.restarted = True /\ c.is_running = True THEN 1 ELSE 0)
         + (IF c.reloaded = True /\ c.is_running = True THEN 1 ELSE 0)

\* C7: a `command` intent that is present (a non-empty string) is emitted as
\* its own action whatever the status and the other intents are, once, and
\* as the last action of the call; without it no such action is emitted.
C7_CommandAlwaysLast ==
    svc.called =>
        IF TruthyStr(svc.command)
        THEN /\ Len(svc.cmds) = IntentCount(svc) + 1
             /\ Last(svc.cmds) = Format(svc.name, svc.command)
             /\ \A i \in 1..(Len(svc.cmds) - 1) :
                    svc.cmds[i] = Format(svc.name, svc.command) =>
                        (svc.command = "restart" /\ svc.restarted = True)
        ELSE Len(svc.cmds) = IntentCount(svc)

C7_Witness ==
    /\ svc.called /\ svc.command = "enable"
    /\ svc.is_running = True /\ svc.restarted = True /\ svc.running = None
    /\ svc.cmds = <<Format(svc.name, "restart"), Format(svc.name, "enable")>>

(***************************************************************************)
(* Package reconciliation                                                  *)
(***************************************************************************)

\* bounds of the package model
MaxDesired == 2     \* longest desired list
MaxRuns == 2        \* calls of ensure_packages in one run of the model

\* None where the code expects a str that it takes apart
NoneStr == <<None>>

\* truth value of an optional str taken apart as a sequence
TruthySeq(str) == str # NoneStr /\ str # <<>>

PkgNames == {<<"a">>, <<"b">>}
Versions == {<<"1">>, <<"2">>}
DesiredStrings == {<<"a">>, <<"b">>, <<"a", "=", "1">>, <<"p">>}
\* version_join: <<>> stands for the falsy values None and ""
VersionJoins == {<<>>, <<"=">>}
\* expand_package_fact: None or the name of a fact function
ExpandFacts == {None, "whatprovides"}

\* a capability fact as a caller may pass it: `p` is provided by a and b
WhatProvides(name) == IF name = <<"p">> THEN <<<<"a">>, <<"b">>>> ELSE <<>>

\* the package facts of a run: name -> non-empty set of installed versions
InitialSnapshots ==
    UNION {[D -> (SUBSET Versions) \ {{}}] : D \in SUBSET PkgNames}

SeqsUpTo(S, n) == UNION {[1..k -> S] : k \in 0..n}

\* packages_to_ensure: a list of strings, or one bare string
DesiredInputs ==
    {[is_str |-> FALSE, value |-> l] : l \in SeqsUpTo(DesiredStrings, MaxDesired)}
    \cup {[is_str |-> TRUE, value |-> str] : str \in DesiredStrings \cup {<<>>}}

Max(S) == CHOOSE x \in S : \A y \in S : y <= x

\* str.rsplit(sep, 1) for a non-empty sep
RSplit1(str, sep) ==
    LET n == Len(sep)
        at == {i \in 1..(Len(str) - n + 1) : SubSeq(str, i, i + n - 1) = sep}
    IN IF at = {} THEN <<str>>
       ELSE <<SubSeq(str, 1, Max(at) - 1), SubSeq(str, Max(at) + n, Len(str))>>

\* packaging.py:13-16
_Package(name, version) == [name |-> name, version |-> version]

\* packaging.py:55-59
CurrentPackages(current) ==
    UNION {{_Package(name, version) : version \in current[name]} : name \in DOMAIN current}

\* packaging.py:61-62
AsList(packages_to_ensure) ==
    IF packages_to_ensure.is_str THEN <<packages_to_ensure.value>>
    ELSE packages_to_ensure.value

\* packaging.py:63-71
ParsePackages(list, version_join) ==
    IF version_join # <<>>
    THEN [i \in 1..Len(list) |->
            LET package_with_version == RSplit1(list[i], version_join)
            IN IF Len(package_with_version) = 1
               THEN _Package(package_with_version[1], NoneStr)
               ELSE _Package(package_with_version[1], package_with_version[2])]
    ELSE [i \in 1..Len(list) |-> _Package(list[i], NoneStr)]

\* the outcome of evaluating a membership test: a value, or a raised exception
Raise(exc) == [err |-> exc, is_present |-> FALSE, packages_with_versions |-> EmptyDict]

\* packaging.py:87: `packages_to_check` is not a local, a parameter or a global
\* of the module, so evaluating the generator's iterable raises NameError
Line87(package, current_packages) == Raise("NameError")

\* packaging.py:109-114: `_is_package_in_current` is not defined or imported in
\* the module, so the call raises NameError
_is_package_in_current(package, current, expand_package_fact, all_required) ==
    Raise("NameError")

\* packaging.py:91 and 118: `_Package` is a dataclass with eq and without
\* frozen, hence unhashable, so using it as a dict key raises TypeError
SetDiffVersions(package, packages_with_versions) == "TypeError"

\* packaging.py:141 and 144: .get(pkg_name, {}) looks a str up among _Package
\* keys and never finds it
GetDiffVersions(pkg_name) == EmptyDict

NoopInstalled(package, current) ==
    IF package.name \in DOMAIN current
    THEN <<"installed", package, current[package.name]>>
    ELSE <<"installed", package, {}>>

NoopNotInstalled(package) == <<"not installed", package>>

LoopStart == [diff_packages |-> <<>>, upgrade_packages |-> <<>>, noops |-> <<>>,
              err |-> None]

RECURSIVE PresentLoop(_, _, _, _, _)
\* packaging.py:85-105
PresentLoop(packages, i, current, latest, st) ==
    IF i > Len(packages) THEN st
    ELSE LET package == packages[i]
             r == Line87(package, CurrentPackages(current))
         IN IF r.err # None THEN [st EXCEPT !.err = r.err]
            ELSE IF ~r.is_present
            THEN [st EXCEPT !.diff_packages = Append(@, package),
                            !.err = SetDiffVersions(package, r.packages_with_versions)]
            ELSE PresentLoop(packages, i + 1, current, latest,
                    [st EXCEPT !.upgrade_packages = Append(@, package),
                               !.noops = IF latest = True THEN @
                                         ELSE Append(@, NoopInstalled(package, current))])

RECURSIVE AbsentLoop(_, _, _, _, _)
\* packaging.py:107-120
AbsentLoop(packages, i, current, expand_package_fact, st) ==
    IF i > Len(packages) THEN st
    ELSE LET package == packages[i]
             r == _is_package_in_current(package, current, expand_package_fact, TRUE)
         IN IF r.err # None THEN [st EXCEPT !.err = r.err]
            ELSE IF r.is_present
            THEN [st EXCEPT !.diff_packages = Append(@, package),
                            !.err = SetDiffVersions(package, r.packages_with_versions)]
            ELSE AbsentLoop(packages, i + 1, current, expand_package_fact,
                    [st EXCEPT !.noops = Append(@, NoopNotInstalled(package))])

\* characters shlex.quote leaves alone
SafeChars == {"a", "b", "p", "1", "2", "="}

\* shlex.quote, for strings without a single quote
Quote(str) ==
    IF str # <<>> /\ \A i \in 1..Len(str) : str[i] \in SafeChars THEN str
    ELSE <<"'">> \o str \o <<"'">>

\* packaging.py:125-128
JoinedPackage(package, version_join) ==
    IF package.version = NoneStr THEN package.name
    ELSE package.name \o version_join \o package.version

\* packaging.py:130-133 and 148-151, "{0} {1}".format(command, " ".join(...))
ShellCommand(command, args) == [command |-> command, args |-> args]

RECURSIVE UpdateCurrent(_, _, _, _)
\* packaging.py:135-145
UpdateCurrent(diff_packages, i, present, current) ==
    IF i > Len(diff_packages) THEN current
    ELSE LET pkg_name == diff_packages[i].name
             version == IF diff_packages[i].version \notin {NoneStr, <<>>}
                        THEN diff_packages[i].version ELSE <<"unknown">>
             extra == GetDiffVersions(pkg_name)
             updated ==
                 IF present = True
                 THEN [n \in (DOMAIN current) \cup {pkg_name} \cup DOMAIN extra |->
                          IF n \in DOMAIN extra THEN extra[n]
                          ELSE IF n = pkg_name THEN {version} ELSE current[n]]
                 ELSE [n \in ((DOMAIN current) \ {pkg_name}) \ DOMAIN extra |->
                          current[n]]
         IN UpdateCurrent(diff_packages, i + 1, present, updated)

\* packaging.py:19-151, the whole generator run until it is exhausted or raises
ensure_packages(packages_to_ensure, current, present, install_command, uninstall_command, latest, upgrade_command, version_join, expand_package_fact) ==
    IF packages_to_ensure.value = <<>>
    THEN [cmds |-> <<>>, noops |-> <<>>, snapshot |-> current, err |-> None]
    ELSE
    LET packages == ParsePackages(AsList(packages_to_ensure), version_join)
        st1 == IF present = True
               THEN PresentLoop(packages, 1, current, latest, LoopStart)
               ELSE LoopStart
        st2 == IF st1.err = None /\ present = False
               THEN AbsentLoop(packages, 1, current, expand_package_fact, st1)
               ELSE st1
        diff == IF st2.diff_packages # <<>>
                THEN <<ShellCommand(
                          IF present = True THEN install_command ELSE uninstall_command,
                          [i \in 1..Len(st2.diff_packages) |->
                              Quote(JoinedPackage(st2.diff_packages[i], version_join))])>>
                ELSE <<>>
        upgrade == IF latest = True /\ TruthySeq(upgrade_command)
                      /\ st2.upgrade_packages # <<>>
                   THEN <<ShellCommand(upgrade_command,
                             [i \in 1..Len(st2.upgrade_packages) |->
                                 Quote(st2.upgrade_packages[i].name)])>>
                   ELSE <<>>
    IN IF st2.err # None
       THEN [cmds |-> <<>>, noops |-> st2.noops, snapshot |-> current,
             err |-> st2.err]
       ELSE [cmds |-> diff \o upgrade, noops |-> st2.noops,
             snapshot |-> UpdateCurrent(st2.diff_packages, 1, present, current),
             err |-> None]

\* pkg.py:43-59, the install and uninstall commands of the BSD `packages` operation
PkgCommands(present, pkg_path, installurl, is_pkg) ==
    LET path == IF present = True /\ pkg_path = None /\ ~installurl
                THEN "http://ftp.<os>.org/pub/<OS>/<version>/packages/<arch>/"
                ELSE pkg_path
        install == IF is_pkg THEN "pkg install -y" ELSE "pkg_add"
    IN [install_command |-> IF path # None THEN <<"PKG_PATH=", path, install>>
                            ELSE <<install>>,
        uninstall_command |-> IF is_pkg THEN <<"pkg delete -y">> ELSE <<"pkg_delete">>]

PkgInit ==
    /\ snapshot \in InitialSnapshots
    /\ pkg = NoPackageCall
    /\ statuses = EmptyDict
    /\ svc = NoServiceCall
    /\ resolved = {}
    /\ facts = NoFacts
    /\ rpm = NoRpmCall
    /\ repo = NoRepoCall

CallRecord(via, run, packages_to_ensure, present, install_command, uninstall_command, latest, upgrade_command, version_join, expand_package_fact, r) ==
    [called |-> TRUE, via |-> via, run |-> run,
     packages_to_ensure |-> packages_to_ensure, present |-> present,
     install_command |-> install_command, uninstall_command |-> uninstall_command,
     latest |-> latest, upgrade_command |-> upgrade_command,
     version_join |-> version_join, expand_package_fact |-> expand_package_fact,
     before |-> snapshot, cmds |-> r.cmds, noops |-> r.noops, err |-> r.err]

\* a first call of ensure_packages on the run's snapshot
EnsurePackages ==
    /\ ~pkg.called
    /\ \E packages_to_ensure \in DesiredInputs, present \in {True, False},
          latest \in {True, False}, upgrade_command \in {NoneStr, <<"upgrade">>},
          version_join \in VersionJoins, expand_package_fact \in ExpandFacts :
        LET r == ensure_packages(packages_to_ensure, snapshot, present, <<"install">>,
                                 <<"uninstall">>, latest, upgrade_command, version_join,
                                 expand_package_fact)
        IN /\ snapshot' = r.snapshot
           /\ pkg' = CallRecord("ensure_packages", 1, packages_to_ensure, present,
                                <<"install">>, <<"uninstall">>, latest, upgrade_command,
                                version_join, expand_package_fact, r)
    /\ UNCHANGED <<statuses, svc, resolved, facts, rpm, repo>>

\* pkg.py:15-68, the `packages` operation on the PkgPackages fact
Packages ==
    /\ ~pkg.called
    /\ \E packages_to_ensure \in DesiredInputs, present \in {True, False},
          pkg_path \in {None, "http://mirror/"}, installurl \in BOOLEAN,
          is_pkg \in BOOLEAN :
        LET c == PkgCommands(present, pkg_path, installurl, is_pkg)
            r == ensure_packages(packages_to_ensure, snapshot, present,
                                 c.install_command, c.uninstall_command, False, NoneStr,
                                 <<>>, None)
        IN /\ snapshot' = r.snapshot
           /\ pkg' = CallRecord("pkg.packages", 1, packages_to_ensure, present,
                                c.install_command, c.uninstall_command, False, NoneStr,
                                <<>>, None, r)
    /\ UNCHANGED <<statuses, svc, resolved, facts, rpm, repo>>

\* the same call once more, on the snapshot as the previous call left it
EnsurePackagesAgain ==
    /\ pkg.called
    /\ pkg.run < MaxRuns
    /\ LET r == ensure_packages(pkg.packages_to_ensure, snapshot, pkg.present,
                                pkg.install_command, pkg.uninstall_command, pkg.latest,
                                pkg.upgrade_command, pkg.version_join,
                                pkg.expand_package_fact)
       IN /\ snapshot' = r.snapshot
          /\ pkg' = CallRecord(pkg.via, pkg.run + 1, pkg.packages_to_ensure,
                               pkg.present, pkg.install_command, pkg.uninstall_command,
                               pkg.latest, pkg.upgrade_command, pkg.version_join,
                               pkg.expand_package_fact, r)
    /\ UNCHANGED <<statuses, svc, resolved, facts, rpm, repo>>

PkgNext == EnsurePackages \/ Packages \/ EnsurePackagesAgain

PkgSpec == PkgInit /\ [][PkgNext]_vars

(***************************************************************************)
(* Properties of ensure_packages                                           *)
(***************************************************************************)

\* the plain membership check: the name is a key of the snapshot and no
\* version was requested or the requested version is installed
Satisfied(package, current) ==
    /\ package.name \in DOMAIN current
    /\ package.version = NoneStr \/ package.version \in current[package.name]

Desired(c) == ParsePackages(AsList(c.packages_to_ensure), c.version_join)

Token(c, package) == Quote(JoinedPackage(package, c.version_join))

\* the arguments of the commands of the call that start with `command`
ArgsOf(c, command) ==
    UNION {Range(c.cmds[i].args) : i \in {j \in 1..Len(c.cmds) : c.cmds[j].command = command}}

\* C2: a second run of ensure_packages with the same desired list and flags,
\* on the snapshot as the first run left it, emits no command and ends
\* normally with only no-op observations.
C2_SecondRunEmitsNothing ==
    (pkg.called /\ pkg.run = 2) => (pkg.cmds = <<>> /\ pkg.err = None)

\* C3: for every non-empty list of well-formed desired packages, every
\* snapshot and both values of present, ensure_packages (also through
\* pkg.packages) runs to completion and does not end in an error.
C3_NoFailureMode ==
    (pkg.called /\ pkg.packages_to_ensure.value # <<>>) => pkg.err = None

\* C8: without capability expansion and with present = True, a desired
\* package is an argument of the install command exactly when it is not
\* satisfied by the snapshot the call started from.
C8_InstallIffNotSatisfied ==
    (pkg.called /\ pkg.present = True /\ pkg.expand_package_fact = None) =>
        \A i \in 1..Len(Desired(pkg)) :
            (Token(pkg, Desired(pkg)[i]) \in ArgsOf(pkg, pkg.install_command))
                <=> ~Satisfied(Desired(pkg)[i], pkg.before)

\* C9: with present = False and a capability expansion, a desired package
\* whose expansion has several names of which at least one is installed is
\* an argument of the uninstall command, and afterwards the declared name
\* and every expanded name are absent from the snapshot.
C9_UninstallAnyMatch ==
    (pkg.called /\ pkg.present = False /\ pkg.expand_package_fact = "whatprovides") =>
        \A i \in 1..Len(Desired(pkg)) :
            LET names == Range(WhatProvides(Desired(pkg)[i].name))
            IN (Cardinality(names) >= 2 /\ names \cap DOMAIN pkg.before # {}) =>
                  /\ Token(pkg, Desired(pkg)[i]) \in ArgsOf(pkg, pkg.uninstall_command)
                  /\ \A n \in names \cup {Desired(pkg)[i].name} :
                        n \notin DOMAIN snapshot

(***************************************************************************)
(* RPM file installer                                                      *)
(***************************************************************************)

\* a str the code parses as a URL is a sequence of its parts:
\* <<scheme, host, "/", segment, "/", segment, ...>>; any other str is a path or name
Schemes == {"http://", "https://"}

\* urlparse(str).scheme, "" when there is none
UrlScheme(str) == IF str # <<>> /\ str[1] \in Schemes THEN str[1] ELSE ""

RpmSources == {<<"/srv/", "vim.rpm">>, <<"http://", "mirror", "/", "vim.rpm">>}
PackageManagerCommands == {"yum", "dnf"}

\* state.get_temp_filename(source): a path derived from the hash of the source
get_temp_filename(source) == <<"/tmp/pyinfra-">> \o source

\* packaging.py:160
TempRpm(source) == get_temp_filename(source) \o <<".rpm">>

\* the value of an RpmPackage fact that has no data (None)
NoFact == [none |-> TRUE]

\* what `rpm -qp <file>` and `rpm -q <name>` can report
RpmInfos == {[name |-> <<"vim">>, version |-> "1"], [name |-> <<"vim">>, version |-> "2"], [name |-> <<"nano">>, version |-> "1"]}

RpmFiles == {src \in RpmSources : UrlScheme(src) = ""} \cup {TempRpm(src) : src \in {u \in RpmSources : UrlScheme(u) # ""}}

RpmNames == {i.name : i \in RpmInfos}

\* the RpmPackage facts of a run: metadata of some files, and the installed
\* version of some packages (a fact by name reports that name)
InitialRpmFacts ==
    {f \in UNION {[D -> RpmInfos] : D \in SUBSET (RpmFiles \cup RpmNames)} :
        \A n \in DOMAIN f : n \in RpmNames => f[n].name = n}

\* host.get_fact(RpmPackage, name=key)
GetRpmFact(rpmfacts, key) == IF key \in DOMAIN rpmfacts THEN rpmfacts[key] ELSE NoFact

\* RpmExists without the comparison of versions at line 175
RpmExists_AnyVersion(info, rpmfacts) ==
    /\ info # NoFact
    /\ GetRpmFact(rpmfacts, info.name) # NoFact

\* packaging.py:170-176
RpmExists(info, rpmfacts) ==
    /\ info # NoFact
    /\ GetRpmFact(rpmfacts, info.name) # NoFact
    /\ GetRpmFact(rpmfacts, info.name).version = info.version

RpmInstallCmd(path) == [kind |-> "rpm -i", path |-> path]
RpmGuardedInstallCmd(path) == [kind |-> "rpm -q || rpm -i", path |-> path]
RpmRemoveCmd(command, name) == [kind |-> "remove -y", command |-> command, name |-> name]
\* files.download(src, dest), delegated to the files operations
DownloadAction(src, dest) == [kind |-> "files.download", src |-> src, dest |-> dest]

\* RpmInstall that installs directly also without metadata
RpmInstall_AlwaysBare(info, source, rpmfacts) ==
    [cmds |-> <<RpmInstallCmd(source)>>,
     rpmfacts |-> IF info # NoFact THEN Put(rpmfacts, info.name, info) ELSE rpmfacts]

\* packaging.py:181-189
RpmInstall(info, source, rpmfacts) ==
    IF info # NoFact
    THEN [cmds |-> <<RpmInstallCmd(source)>>,
          rpmfacts |-> Put(rpmfacts, info.name, info)]
    ELSE [cmds |-> <<RpmGuardedInstallCmd(source)>>, rpmfacts |-> rpmfacts]

\* packaging.py:154-202
ensure_rpm(rpmfacts, original_source, present, package_manager_command) ==
    LET is_url == UrlScheme(original_source) # ""
        source == IF is_url THEN TempRpm(original_source) ELSE original_source
        download == IF is_url THEN <<DownloadAction(original_source, source)>> ELSE <<>>
        info == GetRpmFact(rpmfacts, source)
        exists == RpmExists(info, rpmfacts)
    IN IF Truthy(present) /\ ~exists
       THEN LET r == RpmInstall(info, source, rpmfacts)
            IN [cmds |-> download \o r.cmds, noops |-> <<>>, rpmfacts |-> r.rpmfacts]
       ELSE IF exists /\ ~Truthy(present)
       THEN [cmds |-> download \o <<RpmRemoveCmd(package_manager_command, info.name)>>,
             noops |-> <<>>,
             rpmfacts |-> Pop(rpmfacts, info.name)]
       ELSE [cmds |-> download,
             noops |-> << <<"rpm", original_source,
                            IF Truthy(present) THEN "installed" ELSE "not installed">> >>,
             rpmfacts |-> rpmfacts]

RpmInit ==
    /\ facts \in {[rpm |-> f, files |-> {}] : f \in InitialRpmFacts}
    /\ rpm = NoRpmCall
    /\ repo = NoRepoCall
    /\ statuses = EmptyDict
    /\ svc = NoServiceCall
    /\ resolved = {}
    /\ snapshot = EmptyDict
    /\ pkg = NoPackageCall

\* one call of ensure_rpm on the host's fact cache
EnsureRpm ==
    /\ \E source \in RpmSources, present \in {True, False},
          package_manager_command \in PackageManagerCommands :
        LET r == ensure_rpm(facts.rpm, source, present, package_manager_command)
        IN /\ facts' = [facts EXCEPT !.rpm = r.rpmfacts]
           /\ rpm' = [called |-> TRUE, source |-> source, present |-> present,
                      package_manager_command |-> package_manager_command,
                      before |-> facts.rpm, cmds |-> r.cmds, noops |-> r.noops]
    /\ UNCHANGED <<statuses, svc, resolved, snapshot, pkg, repo>>

RpmNext == EnsureRpm

RpmSpec == RpmInit /\ [][RpmNext]_vars

(***************************************************************************)
(* Properties of ensure_rpm                                                *)
(***************************************************************************)

\* the file the call queries and installs: the download target for a URL
RpmPath(c) == IF UrlScheme(c.source) # "" THEN TempRpm(c.source) ELSE c.source

\* the metadata of that file as the fact cache had it when the call started
RpmInfoBefore(c) == GetRpmFact(c.before, RpmPath(c))

\* metadata resolves and the fact for the resolved name has the same version
RpmExistedBefore(c) ==
    /\ RpmPath(c) \in DOMAIN c.before
    /\ c.before[RpmPath(c)].name \in DOMAIN c.before
    /\ c.before[c.before[RpmPath(c)].name].version = c.before[RpmPath(c)].version

InstallOrRemove(cmds) ==
    {i \in 1..Len(cmds) : cmds[i].kind # "files.download"}

\* C11: whenever present is true and the metadata fact of the (possibly just
\* downloaded) file is absent, ensure_rpm emits the guarded
\* `rpm -q ... || rpm -i <path>` and no bare `rpm -i`; a bare `rpm -i <path>`
\* is emitted only when metadata was obtained and the package does not exist;
\* for a URL source <path> is the temporary download path and the download is
\* emitted before the install command.
C11_GuardedInstallWithoutMetadata ==
    rpm.called =>
        /\ (rpm.present = True /\ RpmPath(rpm) \notin DOMAIN rpm.before) =>
              /\ RpmGuardedInstallCmd(RpmPath(rpm)) \in Range(rpm.cmds)
              /\ \A i \in 1..Len(rpm.cmds) : rpm.cmds[i].kind # "rpm -i"
        /\ \A i \in 1..Len(rpm.cmds) :
              rpm.cmds[i].kind = "rpm -i" =>
                  /\ rpm.cmds[i].path = RpmPath(rpm)
                  /\ RpmPath(rpm) \in DOMAIN rpm.before
                  /\ ~RpmExistedBefore(rpm)
                  /\ rpm.present = True
        /\ (UrlScheme(rpm.source) # "") =>
              /\ rpm.cmds[1] = DownloadAction(rpm.source, TempRpm(rpm.source))
              /\ \A i \in InstallOrRemove(rpm.cmds) : i > 1

C11_Witness ==
    /\ rpm.called /\ rpm.present = True
    /\ UrlScheme(rpm.source) # ""
    /\ TempRpm(rpm.source) \notin DOMAIN rpm.before
    /\ rpm.cmds = <<DownloadAction(rpm.source, TempRpm(rpm.source)),
                    RpmGuardedInstallCmd(TempRpm(rpm.source))>>

RpmNoopOutcome(c) ==
    /\ InstallOrRemove(c.cmds) = {}
    /\ c.noops = << <<"rpm", c.source,
                      IF c.present = True THEN "installed" ELSE "not installed">> >>

\* C17: ensure_rpm takes exactly one of three outcomes, decided by present and
\* exists: present and not exists gives one install command; exists and not
\* present gives `<removeCmd> remove -y <resolvedName>` and deletes the cached
\* fact of that name; every other case gives no install/remove command and
\* one no-op that names the original source.  After an install with metadata
\* a second identical call on the updated fact cache gives the no-op outcome.
C17_RpmThreeOutcomes ==
    [][ /\ rpm'.called =>
             LET c == rpm'
                 install == {i \in 1..Len(c.cmds) : c.cmds[i].kind \in {"rpm -i", "rpm -q || rpm -i"}}
                 remove == {i \in 1..Len(c.cmds) : c.cmds[i].kind = "remove -y"}
             IN IF c.present = True /\ ~RpmExistedBefore(c)
                THEN Cardinality(install) = 1 /\ remove = {} /\ c.noops = <<>>
                ELSE IF RpmExistedBefore(c) /\ c.present = False
                THEN /\ install = {} /\ c.noops = <<>>
                     /\ Cardinality(remove) = 1
                     /\ \A i \in remove :
                           c.cmds[i] = RpmRemoveCmd(c.package_manager_command,
                                                    RpmInfoBefore(c).name)
                     /\ RpmInfoBefore(c).name \notin DOMAIN facts'.rpm
                ELSE RpmNoopOutcome(c)
        /\ (/\ rpm.called
            /\ RpmInstallCmd(RpmPath(rpm)) \in Range(rpm.cmds)
            /\ rpm'.source = rpm.source /\ rpm'.present = rpm.present
            /\ rpm'.package_manager_command = rpm.package_manager_command)
           => RpmNoopOutcome(rpm')
      ]_vars

C17_Witness ==
    /\ rpm.called /\ rpm.present = False /\ RpmExistedBefore(rpm)
    /\ rpm.cmds = <<RpmRemoveCmd(rpm.package_manager_command, <<"vim">>)>>
    /\ <<"vim">> \notin DOMAIN facts.rpm
    /\ rpm.noops = <<>>

(***************************************************************************)
(* Repository file reconciler                                              *)
(***************************************************************************)

DockerUrl == <<"https://", "download.docker.com", "/", "linux", "/", "docker-ce", ".repo">>
EpelUrl == <<"https://", "mirror", "/", "epel">>
RepoIds == {<<"docker-ce">>, <<"docker-ce", ".repo">>, DockerUrl, EpelUrl}
RepoDirectory == <<"/etc/yum.repos.d/">>
\* optional str arguments: None or a value
Descriptions == {NoneStr, <<"Docker CE">>}
GpgKeys == {NoneStr, <<"https://key">>}
RepoTypes == {NoneStr, <<"rpm-md">>}
BaseUrl == <<"https://base/">>

\* urlparse(str).path: what follows the scheme and the host
UrlPath(str) == IF UrlScheme(str) # "" THEN SubSeq(str, 3, Len(str)) ELSE str

\* path.split("/")[-1]
LastSegment(path) ==
    LET slashes == {i \in 1..Len(path) : path[i] = "/"}
    IN IF slashes = {} THEN path ELSE SubSeq(path, Max(slashes) + 1, Len(path))

\* RepoName that keeps a `.repo` suffix of the URL's last segment
RepoName_KeepSuffix(name_or_url) ==
    IF UrlScheme(name_or_url) # "" THEN LastSegment(UrlPath(name_or_url))
    ELSE name_or_url

\* packaging.py:220-225
RepoName(name_or_url) ==
    IF UrlScheme(name_or_url) # ""
    THEN LET segment == LastSegment(UrlPath(name_or_url))
         IN IF segment # <<>> /\ Last(segment) = ".repo" THEN Front(segment)
            ELSE segment
    ELSE name_or_url

\* packaging.py:227
RepoFilename(repo_directory, name) == repo_directory \o name \o <<".repo">>

\* files.file(path, present=False), delegated to the files operations
FileAbsentAction(path) == [kind |-> "files.file", path |-> path, present |-> False]

\* files.put(repo, path), delegated to the files operations
PutAction(lines, path) == [kind |-> "files.put", lines |-> lines, dest |-> path]

Flag(b) == IF Truthy(b) THEN <<"1">> ELSE <<"0">>

\* packaging.py:241-259, the lines of the repo file
RepoLines(name, baseurl, description, enabled, gpgcheck, gpgkey, type_) ==
    << <<"[", name, "]">>,
       <<"name=", IF TruthySeq(description) THEN description ELSE name>>,
       <<"baseurl=", baseurl>>,
       <<"enabled=", Flag(enabled)>>,
       <<"gpgcheck=", Flag(gpgcheck)>> >>
    \o (IF TruthySeq(type_) THEN << <<"type=", type_>> >> ELSE <<>>)
    \o (IF TruthySeq(gpgkey) THEN << <<"gpgkey=", gpgkey>> >> ELSE <<>>)
    \o << <<>> >>

\* RepoDownload that does not look at the File fact
RepoDownload_Always(files, url, filename) == <<DownloadAction(url, filename)>>

\* packaging.py:235-238
RepoDownload(files, url, filename) ==
    IF filename \notin files THEN <<DownloadAction(url, filename)>> ELSE <<>>

\* packaging.py:205-263
ensure_yum_repo(files, name_or_url, baseurl, present, description, enabled, gpgcheck, gpgkey, repo_directory, type_) ==
    LET is_url == UrlScheme(name_or_url) # ""
        name == RepoName(name_or_url)
        filename == RepoFilename(repo_directory, name)
    IN IF ~Truthy(present) THEN <<FileAbsentAction(filename)>>
       ELSE IF is_url THEN RepoDownload(files, name_or_url, filename)
       ELSE <<PutAction(RepoLines(name, baseurl, description, enabled, gpgcheck,
                                  gpgkey, type_), filename)>>

\* the File facts of a run: which of the repo files exist on the host
InitialFiles == SUBSET {RepoFilename(RepoDirectory, RepoName(id)) : id \in RepoIds}

RepoInit ==
    /\ facts \in {[rpm |-> EmptyDict, files |-> f] : f \in InitialFiles}
    /\ repo = NoRepoCall
    /\ rpm = NoRpmCall
    /\ statuses = EmptyDict
    /\ svc = NoServiceCall
    /\ resolved = {}
    /\ snapshot = EmptyDict
    /\ pkg = NoPackageCall

\* one call of ensure_yum_repo; the fact cache is read, not changed
EnsureYumRepo ==
    /\ \E name_or_url \in RepoIds, present \in {True, False},
          description \in Descriptions, enabled \in {True, False},
          gpgcheck \in {True, False}, gpgkey \in GpgKeys, type_ \in RepoTypes :
        repo' = [called |-> TRUE, name_or_url |-> name_or_url, present |-> present,
                 description |-> description, enabled |-> enabled,
                 gpgcheck |-> gpgcheck, gpgkey |-> gpgkey, type_ |-> type_,
                 cmds |-> ensure_yum_repo(facts.files, name_or_url, BaseUrl, present,
                                          description, enabled, gpgcheck, gpgkey,
                                          RepoDirectory, type_)]
    /\ UNCHANGED <<statuses, svc, resolved, snapshot, pkg, facts, rpm>>

RepoNext == EnsureYumRepo

RepoSpec == RepoInit /\ [][RepoNext]_vars

(***************************************************************************)
(* Properties of ensure_yum_repo                                           *)
(***************************************************************************)

\* <directory><name>.repo, the name of a URL being its last path segment
\* without a `.repo` suffix
RepoTarget(c) ==
    IF c.name_or_url = DockerUrl THEN <<"/etc/yum.repos.d/", "docker-ce", ".repo">>
    ELSE IF c.name_or_url = EpelUrl THEN <<"/etc/yum.repos.d/", "epel", ".repo">>
    ELSE <<"/etc/yum.repos.d/">> \o c.name_or_url \o <<".repo">>

\* C18: ensure_yum_repo delegates to one kind of file action per call: with
\* present false only "ensure file absent" at the target path; with present
\* true and a URL, a download to the target path iff the File fact of that
\* path is false, else nothing; with present true and a bare name only a put
\* of the synthesized text.  The target path is <directory><name>.repo.
C18_RepoOneFileAction ==
    repo.called =>
        IF repo.present = False
        THEN repo.cmds = <<FileAbsentAction(RepoTarget(repo))>>
        ELSE IF repo.name_or_url \in {DockerUrl, EpelUrl}
        THEN repo.cmds = IF RepoTarget(repo) \in facts.files THEN <<>>
                         ELSE <<DownloadAction(repo.name_or_url, RepoTarget(repo))>>
        ELSE /\ Len(repo.cmds) = 1
             /\ repo.cmds[1].kind = "files.put"
             /\ repo.cmds[1].dest = RepoTarget(repo)
             /\ repo.cmds[1].lines[1] = <<"[", repo.name_or_url, "]">>

C18_Witness ==
    /\ repo.called /\ repo.present = True /\ repo.name_or_url = DockerUrl
    /\ <<"/etc/yum.repos.d/", "docker-ce", ".repo">> \notin facts.files
    /\ repo.cmds = <<DownloadAction(DockerUrl, <<"/etc/yum.repos.d/", "docker-ce", ".repo">>)>>

(***************************************************************************)
(* Frame, faithfulness and idempotence                                     *)
(***************************************************************************)

\* a run that reconciles services on a status map, or packages on a snapshot;
\* the two maps are disjoint state and each call leaves the other one alone
FrameInit == Init \/ PkgInit

ServiceRun == snapshot = EmptyDict /\ ~pkg.called
PackageRun == statuses = EmptyDict /\ ~svc.called

FrameNext ==
    \/ ServiceRun /\ ServiceControl
    \/ PackageRun /\ EnsurePackages
    \/ PackageRun /\ Packages
    \/ PackageRun /\ EnsurePackagesAgain

FrameSpec == FrameInit /\ [][FrameNext]_vars

\* the names of the packages in the call's install and uninstall commands,
\* with the identities they expand to
CommandNames(c) ==
    LET named == {Desired(c)[i].name : i \in {j \in 1..Len(Desired(c)) :
                     Token(c, Desired(c)[j]) \in ArgsOf(c, c.install_command)
                                                 \cup ArgsOf(c, c.uninstall_command)}}
    IN named \cup
       (IF c.expand_package_fact = None THEN {}
        ELSE UNION {Range(WhatProvides(n)) : n \in named})

Changed(d, e) ==
    {k \in (DOMAIN d) \cup (DOMAIN e) :
        ~(k \in DOMAIN d /\ k \in DOMAIN e /\ d[k] = e[k])}

RunSimple(cmd, up) ==
    IF cmd.kind # "cmd" THEN up
    ELSE IF cmd.verb \in {"start", "restart"} THEN TRUE
    ELSE IF cmd.verb = "stop" THEN FALSE
    ELSE up

RunCommand(cmd, up) ==
    IF cmd.kind = "if"
    THEN IF up
         THEN RunSimple(cmd.reload_command,
                        RunSimple(cmd.restart_command, RunSimple(cmd.stop_command, up)))
         ELSE RunSimple(cmd.start_command, up)
    ELSE RunSimple(cmd, up)

RECURSIVE RunAll(_, _, _)
RunAll(cmds, i, up) ==
    IF i > Len(cmds) THEN up ELSE RunAll(cmds, i + 1, RunCommand(cmds[i], up))

\* C19: after a call with the running intent specified (and no extra
\* command), statuses[name] equals the state of the service after the
\* emitted commands ran in order on a host whose state agreed with the
\* recorded status before the call, or was arbitrary when it was unknown.
C19_StatusFaithfulToHost ==
    (svc.called /\ svc.running # None /\ ~TruthyStr(svc.command)) =>
        \A up \in (IF svc.is_running = None THEN BOOLEAN
                   ELSE {svc.is_running = True}) :
            RunAll(svc.cmds, 1, up) = (statuses[svc.name] = True)

\* C20: a call that repeats the previous call for the same name with the
\* same running intent (True or False) and no restarted, reloaded or
\* command intent emits no command, reports exactly one no-op and leaves
\* the status map unchanged.
C20_ServiceIdempotent ==
    [][ (/\ svc'.repeat /\ svc'.running # None
         /\ ~Truthy(svc'.restarted) /\ ~Truthy(svc'.reloaded)
         /\ ~TruthyStr(svc'.command))
        => (/\ svc'.cmds = <<>>
            /\ Len(svc'.noops) = 1
            /\ statuses' = statuses)
      ]_vars

C20_Witness ==
    /\ svc.called /\ svc.repeat /\ svc.running = True
    /\ svc.restarted = None /\ svc.reloaded = None /\ svc.command = None
    /\ svc.cmds = <<>>
    /\ svc.noops = << <<"running", svc.name>> >>
    /\ statuses[svc.name] = True

(***************************************************************************)
(* Further properties of ensure_packages                                   *)
(***************************************************************************)

\* the desired packages that are satisfied and were requested without a version
UpgradeEligible(c) ==
    {i \in 1..Len(Desired(c)) :
        Satisfied(Desired(c)[i], c.before) /\ Desired(c)[i].version = NoneStr}

\* C13: with present = True, an upgrade command is emitted iff latest is
\* true, an upgrade command is given and some desired package is satisfied
\* and was requested without a version; its arguments are exactly the bare
\* names of those packages.
C13_UpgradeIffEligible ==
    (pkg.called /\ pkg.present = True) =>
        LET up == {j \in 1..Len(pkg.cmds) : pkg.cmds[j].command = pkg.upgrade_command}
        IN /\ (up # {}) <=> (/\ pkg.latest = True
                             /\ TruthySeq(pkg.upgrade_command)
                             /\ UpgradeEligible(pkg) # {})
           /\ \A j \in up :
                 Range(pkg.cmds[j].args) =
                     {Quote(Desired(pkg)[i].name) : i \in UpgradeEligible(pkg)}

Count(seq, P(_)) == Cardinality({i \in 1..Len(seq) : P(seq[i])})

\* C16: with latest = False every desired package is accounted for exactly
\* once: as an argument of the install/uninstall command or by one no-op
\* ("installed" with present = True, "not installed" with present = False).
C16_EveryPackageAccountedFor ==
    (pkg.called /\ pkg.latest = False) =>
        \A i \in 1..Len(Desired(pkg)) :
            LET d == Desired(pkg)[i]
                IsD(x) == x = d
                IsArgD(x) == x = Token(pkg, d)
                IsNoopD(x) == x[2] = d /\ x[1] = (IF pkg.present = True THEN "installed"
                                                 ELSE "not installed")
                args == IF pkg.cmds = <<>> THEN <<>> ELSE pkg.cmds[1].args
            IN Count(Desired(pkg), IsD) = Count(args, IsArgD) + Count(pkg.noops, IsNoopD)

====
